---- MODULE Spec2Model ----
(***************************************************************************)
(* Emergency-payment runbook: the run orchestrator (step pipeline, event   *)
(* log, retry policy, decision engine), the Next.js stream relay with its  *)
(* demo fallback, the run page's event reducer and the orchestrator store. *)
(***************************************************************************)
EXTENDS Integers, Sequences, FiniteSets, TLC

VARIABLES
  runStatus,    \* backend: run id -> "none" | "pending" | "running" | "completed" | "failed"
  cur,          \* backend: run id -> [idx, phase] position of the run's task in the pipeline
  attempts,     \* backend: run id -> agent call attempts made in the current step
  stepRecords,  \* backend: run id -> step -> [status, error]
  results,      \* backend: run id -> agent step -> result status, "FAILED" or "none"
  log,          \* backend: run id -> the run's EventLog (sequence of events)
  packet,       \* backend: run id -> DecisionPacket of the run (NoPacket until finalized)
  execs,        \* backend: run id -> number of executions ever created for the id
  startReqs,    \* start requests accepted by the start route so far
  internalErr,  \* backend: run id -> an internal orchestrator failure happened
  mockIds,      \* run ids minted by the start route's demo fallback
  sub,          \* stream relay: subscriber -> [mode, run, cursor, demoIdx, relayed, ...]
  page,         \* run page: subscriber -> [events, steps, decision, isComplete, error]
  store,        \* orchestrator store: [status, agents, planned, processed]
  env,          \* the agents' behaviour: [results: step -> statuses, failures]
  dec,          \* decision bench: the inputs of decide and of the demo packet, and their outputs
  panel         \* chat panel: [input, isLoading, piiStatus, blockedMessage, timeouts, call, ...]

vars == <<runStatus, cur, attempts, stepRecords, results, log, packet, execs,
          startReqs, internalErr, mockIds, sub, page, store, env, dec, panel>>

backendVars == <<runStatus, cur, attempts, stepRecords, results, log, packet,
                 execs, internalErr>>

-----------------------------------------------------------------------------
(* Bounds and program constants *)

MaxStarts == 2

MAX_RETRIES == 3

RunIds == {"r1"}

Subs == {"s1"}

Undefined == "undefined"

-----------------------------------------------------------------------------
(* Vocabulary *)

Steps == <<"intake", "sanctions", "liquidity", "procedures", "summarize">>

StepSet == {Steps[i] : i \in 1..Len(Steps)}

AgentSteps == {"sanctions", "liquidity", "procedures"}

AllKeys == {"run_id", "seq", "type", "step", "agent", "ts", "elapsed_ms", "payload"}

NoPacket == [decision |-> Undefined, rationale |-> <<>>, approvers |-> <<>>]

EmptyPayload ==
  [status |-> Undefined, error |-> Undefined, decision |-> Undefined,
   decision_packet |-> NoPacket, payment |-> FALSE]

ReleaseDecisions == {"RELEASE", "RELEASE_WITH_CONDITIONS", "PARTIAL_RELEASE"}

TransientFailures == {"timeout", "transport"}

DefinitiveFailures == {"rejected", "malformed"}

SanctionsStatuses == {"CLEAR", "BLOCK", "ESCALATE"}

LiquidityStatuses == {"SUFFICIENT", "BREACH"}

ProceduresStatuses == {"NONE", "CONDITIONS"}

\* what the three external agents may answer
AgentEnv ==
  [results |-> [sanctions |-> SanctionsStatuses, liquidity |-> LiquidityStatuses,
                procedures |-> ProceduresStatuses],
   failures |-> TransientFailures \cup DefinitiveFailures]

\* the agents of the streamed runs: one clean answer each, one failure per class
StreamAgentEnv ==
  [results |-> [sanctions |-> {"CLEAR"}, liquidity |-> {"BREACH"},
                procedures |-> {"NONE"}],
   failures |-> {"timeout", "rejected"}]

AgentOf(step) ==
  CASE step = "sanctions" -> "sanctions-screening-agent"
    [] step = "liquidity" -> "liquidity-screening-agent"
    [] step = "procedures" -> "operational-procedures-agent"
    [] OTHER -> "orchestrator"

-----------------------------------------------------------------------------
(* DecisionEngine: ordered rule evaluation, first match wins; an exhausted  *)
(* agent failure is substituted by the conservative outcome of its step.    *)

\* variant: a procedures failure is passed over and the payment released
FailureSubstitutionLenient(step) ==
  CASE step = "sanctions" -> [decision |-> "ESCALATE", note |-> "manual review required"]
    [] step = "liquidity" -> [decision |-> "ESCALATE", note |-> "system degradation"]
    [] step = "procedures" -> [decision |-> "RELEASE", note |-> "manual review required"]

\* variant: one handler for every agent failure
FailureSubstitutionUniform(step) ==
  [decision |-> "ESCALATE", note |-> "manual review required"]

\* variant: the liquidity and the procedures entries change places
FailureSubstitutionSwapped(step) ==
  CASE step = "sanctions" -> [decision |-> "ESCALATE", note |-> "manual review required"]
    [] step = "liquidity" -> [decision |-> "HOLD", note |-> "manual review required"]
    [] step = "procedures" -> [decision |-> "ESCALATE", note |-> "system degradation"]

\* substitution on an exhausted agent failure: the decision returned and its note
FailureSubstitution(step) ==
  CASE step = "sanctions" -> [decision |-> "ESCALATE", note |-> "manual review required"]
    [] step = "liquidity" -> [decision |-> "ESCALATE", note |-> "system degradation"]
    [] step = "procedures" -> [decision |-> "HOLD", note |-> "manual review required"]

Rationale(s, l, rule, notes) ==
  <<<<"sanctions", s>>, <<"liquidity", l>>, <<"rule", rule>>>> \o notes

\* variant: a failed later step is substituted before the sanctions result is read
DecideFailuresFirst(s, l, p) ==
  IF l = "FAILED" THEN
    [decision |-> FailureSubstitution("liquidity").decision,
     rationale |-> Rationale(s, l, "liquidity-failure",
                             <<<<"note", FailureSubstitution("liquidity").note>>>>),
     approvers |-> <<"Treasury Manager">>]
  ELSE IF p = "FAILED" THEN
    [decision |-> FailureSubstitution("procedures").decision,
     rationale |-> Rationale(s, l, "procedures-failure",
                             <<<<"note", FailureSubstitution("procedures").note>>>>),
     approvers |-> <<"Treasury Manager">>]
  ELSE
    [decision |-> IF s = "BLOCK" THEN "REJECT_SANCTIONS" ELSE "RELEASE",
     rationale |-> Rationale(s, l, "none", <<>>),
     approvers |-> <<"Compliance Officer">>]

Decide(s, l, p) ==
  IF s \in {"BLOCK", "CONFIRMED_MATCH"} THEN
    [decision |-> "REJECT_SANCTIONS",
     rationale |-> Rationale(s, l, "sanctions-block", <<>>),
     approvers |-> <<"Compliance Officer">>]
  ELSE IF s = "FAILED" THEN
    [decision |-> FailureSubstitution("sanctions").decision,
     rationale |-> Rationale(s, l, "sanctions-failure",
                             <<<<"note", FailureSubstitution("sanctions").note>>>>),
     approvers |-> <<"Compliance Manager", "MLRO">>]
  ELSE IF s \in {"ESCALATE", "REVIEW_REQUIRED"} THEN
    [decision |-> "ESCALATE_COMPLIANCE",
     rationale |-> Rationale(s, l, "sanctions-escalate", <<>>),
     approvers |-> <<"Compliance Manager", "MLRO">>]
  ELSE IF s # "CLEAR" THEN
    [decision |-> "NO_RULE",
     rationale |-> Rationale(s, l, "none", <<>>),
     approvers |-> <<>>]
  ELSE IF l = "FAILED" THEN
    [decision |-> FailureSubstitution("liquidity").decision,
     rationale |-> Rationale(s, l, "liquidity-failure",
                             <<<<"note", FailureSubstitution("liquidity").note>>>>),
     approvers |-> <<"Treasury Manager">>]
  ELSE IF l \in {"BREACH", "INSUFFICIENT"} THEN
    [decision |-> IF p = "CONDITIONS" THEN "HOLD_PENDING_DOCUMENTATION"
                                      ELSE "HOLD_PENDING_APPROVAL",
     rationale |-> Rationale(s, l, "liquidity-breach", <<<<"gap", "125000">>>>),
     approvers |-> <<"Treasury Manager">>]
  ELSE IF l # "SUFFICIENT" THEN
    [decision |-> "NO_RULE",
     rationale |-> Rationale(s, l, "none", <<>>),
     approvers |-> <<>>]
  ELSE IF p = "FAILED" THEN
    [decision |-> FailureSubstitution("procedures").decision,
     rationale |-> Rationale(s, l, "procedures-failure",
                             <<<<"note", FailureSubstitution("procedures").note>>>>),
     approvers |-> <<"Treasury Manager">>]
  ELSE
    [decision |-> IF p = "CONDITIONS" THEN "RELEASE_WITH_CONDITIONS"
                                      ELSE "RELEASE",
     rationale |-> Rationale(s, l, "clean-release", <<>>),
     approvers |-> <<"Payments Operator">>]

-----------------------------------------------------------------------------
(* EventLog *)

Event(r, n, type, step, agent, payload, keys) ==
  [run_id |-> r, seq |-> n, type |-> type, step |-> step, agent |-> agent,
   payload |-> payload, keys |-> keys]

\* variant: the number is taken from the last event read, not from the log's end
NextSeqStale(r) == IF log[r] = <<>> THEN 1 ELSE log[r][1].seq + 1

\* variant: one counter numbers the events of all runs
NextSeqGlobal(r) ==
  Cardinality(UNION {{<<q, i>> : i \in DOMAIN log[q]} : q \in DOMAIN log}) + 1

\* append(runId, eventKind, payload): the next sequence number of the run
NextSeq(r) == Len(log[r]) + 1

\* variant: the step's previous event is updated in place
LogAppendInPlace(r, type, step, agent, payload) ==
  IF log[r] # <<>> /\ log[r][Len(log[r])].step = step
  THEN [log[r] EXCEPT ![Len(log[r])] =
          Event(r, Len(log[r]), type, step, agent, payload, AllKeys)]
  ELSE Append(log[r], Event(r, NextSeq(r), type, step, agent, payload, AllKeys))

\* variant: the log is a ring that drops its oldest event once it holds four
LogAppendRing(r, type, step, agent, payload) ==
  IF Len(log[r]) >= 4
  THEN Append(Tail(log[r]), Event(r, NextSeq(r), type, step, agent, payload, AllKeys))
  ELSE Append(log[r], Event(r, NextSeq(r), type, step, agent, payload, AllKeys))

LogAppend(r, type, step, agent, payload) ==
  Append(log[r], Event(r, NextSeq(r), type, step, agent, payload, AllKeys))

\* readFrom(runId, sequenceNumber): the events from that number on, in order
ReadFrom(r, n) == SubSeq(log[r], n, Len(log[r]))

-----------------------------------------------------------------------------
(* RunOrchestrator *)

CurStep(r) == Steps[cur[r].idx]

NoResults == [s \in AgentSteps |-> "none"]

NoRecords == [s \in StepSet |-> [status |-> "pending", error |-> Undefined]]

\* variant: every start creates an execution
StartAlwaysAccepted(r) == TRUE

\* start(message, overrides): one execution per run id; a second start of a
\* known id is answered with the existing run and creates nothing
StartAccepted(r) == runStatus[r] = "none"

BackendStart(r) ==
  IF StartAccepted(r)
  THEN /\ runStatus' = [runStatus EXCEPT ![r] = "pending"]
       /\ execs' = [execs EXCEPT ![r] = @ + 1]
       /\ cur' = [cur EXCEPT ![r] = [idx |-> 1, phase |-> "enter"]]
       /\ attempts' = [attempts EXCEPT ![r] = 0]
       /\ stepRecords' = [stepRecords EXCEPT ![r] = NoRecords]
       /\ results' = [results EXCEPT ![r] = NoResults]
       /\ UNCHANGED <<log, packet, internalErr>>
  ELSE UNCHANGED backendVars

\* the run's task is scheduled
BeginExecution(r) ==
  /\ runStatus[r] = "pending"
  /\ runStatus' = [runStatus EXCEPT ![r] = "running"]
  /\ UNCHANGED <<cur, attempts, stepRecords, results, log, packet, execs,
                 startReqs, internalErr, mockIds, sub, page, store, env, dec, panel>>

\* on entering a step: emit step_started, set the StepRecord to running
EnterStep(r) ==
  /\ runStatus[r] = "running"
  /\ cur[r].phase = "enter"
  /\ log' = [log EXCEPT ![r] =
               LogAppend(r, "step_started", CurStep(r), AgentOf(CurStep(r)), EmptyPayload)]
  /\ stepRecords' = [stepRecords EXCEPT ![r][CurStep(r)].status = "running"]
  /\ cur' = [cur EXCEPT ![r].phase = "work"]
  /\ attempts' = [attempts EXCEPT ![r] = 0]
  /\ UNCHANGED <<runStatus, results, packet, execs, startReqs, internalErr,
                 mockIds, sub, page, store, env, dec, panel>>

\* variant: the run's task ends after the step
AdvanceHalt(r) == [cur EXCEPT ![r].phase = "done"]

Advance(r) == [cur EXCEPT ![r] = [idx |-> cur[r].idx + 1, phase |-> "enter"]]

\* intake is computed locally and cannot fail
CompleteIntake(r) ==
  /\ runStatus[r] = "running"
  /\ cur[r].phase = "work"
  /\ CurStep(r) = "intake"
  /\ log' = [log EXCEPT ![r] =
               LogAppend(r, "step_completed", "intake", "orchestrator",
                      [EmptyPayload EXCEPT !.payment = TRUE])]
  /\ stepRecords' = [stepRecords EXCEPT ![r]["intake"].status = "completed"]
  /\ cur' = Advance(r)
  /\ UNCHANGED <<runStatus, attempts, results, packet, execs, startReqs,
                 internalErr, mockIds, sub, page, store, env, dec, panel>>

\* variant: the limit counts the retries, not the attempts
ShouldRetryOneMore(failure, made) ==
  /\ failure \in TransientFailures
  /\ made <= MAX_RETRIES

\* variant: every failure class is retried
ShouldRetryAnyFailure(failure, made) == made < MAX_RETRIES

\* the retry policy: only transient failure classes are retried, up to the limit
ShouldRetry(failure, made) ==
  /\ failure \in TransientFailures
  /\ made < MAX_RETRIES

StepSucceeds(r, res) ==
  /\ log' = [log EXCEPT ![r] =
               LogAppend(r, "step_completed", CurStep(r), AgentOf(CurStep(r)),
                      [EmptyPayload EXCEPT !.status = res])]
  /\ stepRecords' = [stepRecords EXCEPT ![r][CurStep(r)] =
                       [status |-> "completed", error |-> Undefined]]
  /\ results' = [results EXCEPT ![r][CurStep(r)] = res]
  /\ cur' = Advance(r)

\* variant: the failed call takes the run's task with it
StepFailsEndsPipeline(r, failure) ==
  /\ log' = [log EXCEPT ![r] =
               LogAppend(r, "step_failed", CurStep(r), AgentOf(CurStep(r)),
                      [EmptyPayload EXCEPT !.error = failure])]
  /\ stepRecords' = [stepRecords EXCEPT ![r][CurStep(r)] =
                       [status |-> "failed", error |-> failure]]
  /\ results' = [results EXCEPT ![r][CurStep(r)] = "FAILED"]
  /\ cur' = [cur EXCEPT ![r] = [idx |-> Len(Steps), phase |-> "done"]]

\* failure substitution: step_failed with the error class, the step's result
\* is replaced by FAILED and the pipeline goes on
StepFails(r, failure) ==
  /\ log' = [log EXCEPT ![r] =
               LogAppend(r, "step_failed", CurStep(r), AgentOf(CurStep(r)),
                      [EmptyPayload EXCEPT !.error = failure])]
  /\ stepRecords' = [stepRecords EXCEPT ![r][CurStep(r)] =
                       [status |-> "failed", error |-> failure]]
  /\ results' = [results EXCEPT ![r][CurStep(r)] = "FAILED"]
  /\ cur' = Advance(r)

\* a failed call that is retried: the error class is kept in the StepRecord,
\* the step stays running and nothing is appended
RetryCall(r, failure) ==
  /\ stepRecords' = [stepRecords EXCEPT ![r][CurStep(r)].error = failure]
  /\ UNCHANGED <<log, results, cur>>

\* one call of the step's agent, with its outcome
AgentCall(r) ==
  /\ runStatus[r] = "running"
  /\ cur[r].phase = "work"
  /\ CurStep(r) \in AgentSteps
  /\ attempts' = [attempts EXCEPT ![r] = @ + 1]
  /\ \/ \E res \in env.results[CurStep(r)] : StepSucceeds(r, res)
     \/ \E failure \in env.failures :
          IF ShouldRetry(failure, attempts[r] + 1)
          THEN RetryCall(r, failure)
          ELSE StepFails(r, failure)
  /\ UNCHANGED <<runStatus, packet, execs, startReqs, internalErr, mockIds,
                 sub, page, store, env, dec, panel>>

\* the payload of the final event
FinalPayload(p) == [EmptyPayload EXCEPT !.decision = p.decision]

\* summarize: combine the results, emit step_completed and the terminal final
\* event, write the DecisionPacket and complete the run
Summarize(r) ==
  /\ runStatus[r] = "running"
  /\ cur[r].phase = "work"
  /\ CurStep(r) = "summarize"
  /\ LET p == Decide(results[r]["sanctions"], results[r]["liquidity"],
                     results[r]["procedures"])
         e1 == Event(r, NextSeq(r), "step_completed", "summarize", "orchestrator",
                     EmptyPayload, AllKeys)
         e2 == Event(r, NextSeq(r) + 1, "final", "summarize", "orchestrator",
                     FinalPayload(p), AllKeys)
     IN /\ packet' = [packet EXCEPT ![r] = p]
        /\ log' = [log EXCEPT ![r] = log[r] \o <<e1, e2>>]
  /\ stepRecords' = [stepRecords EXCEPT ![r]["summarize"].status = "completed"]
  /\ runStatus' = [runStatus EXCEPT ![r] = "completed"]
  /\ cur' = [cur EXCEPT ![r] = [idx |-> Len(Steps), phase |-> "done"]]
  /\ UNCHANGED <<attempts, results, execs, startReqs, internalErr, mockIds,
                 sub, page, store, env, dec, panel>>

\* one step of the run's task
PipelineStep(r) == EnterStep(r) \/ CompleteIntake(r) \/ AgentCall(r) \/ Summarize(r)

\* variant: an internal failure is handled as an agent failure of the step
InternalFailureSubstituted(r) ==
  /\ runStatus[r] = "running"
  /\ cur[r].phase = "work"
  /\ CurStep(r) \in AgentSteps
  /\ log' = [log EXCEPT ![r] =
               LogAppend(r, "error", CurStep(r), "orchestrator",
                      [EmptyPayload EXCEPT !.error = "internal"])]
  /\ internalErr' = [internalErr EXCEPT ![r] = TRUE]
  /\ results' = [results EXCEPT ![r][CurStep(r)] = "FAILED"]
  /\ cur' = Advance(r)
  /\ UNCHANGED <<runStatus, attempts, stepRecords, packet, execs, startReqs,
                 mockIds, sub, page, store, env, dec, panel>>

\* an internal orchestrator failure (EventLog or RunState unavailable) is
\* fatal: error event, status failed, nothing substituted
InternalFailure(r) ==
  /\ runStatus[r] = "running"
  /\ log' = [log EXCEPT ![r] =
               LogAppend(r, "error", CurStep(r), "orchestrator",
                      [EmptyPayload EXCEPT !.error = "internal"])]
  /\ runStatus' = [runStatus EXCEPT ![r] = "failed"]
  /\ internalErr' = [internalErr EXCEPT ![r] = TRUE]
  /\ cur' = [cur EXCEPT ![r].phase = "done"]
  /\ UNCHANGED <<attempts, stepRecords, results, packet, execs, startReqs,
                 mockIds, sub, page, store, env, dec, panel>>

\* a second writer of the run's log (the misuse scenario of the EventLog
\* contract): an agent_message is appended while the run is running
MaxExternal == 1

ExternalEvents(r) == {i \in DOMAIN log[r] : log[r][i].agent = "external-writer"}

ExternalAppend(r) ==
  /\ runStatus[r] = "running"
  /\ Cardinality(ExternalEvents(r)) < MaxExternal
  /\ log' = [log EXCEPT ![r] =
               LogAppend(r, "agent_message", CurStep(r), "external-writer", EmptyPayload)]
  /\ UNCHANGED <<runStatus, cur, attempts, stepRecords, results, packet, execs,
                 startReqs, internalErr, mockIds, sub, page, store, env, dec, panel>>

-----------------------------------------------------------------------------
(* Start route: POST /api/runbook/start *)

MockIds == <<"demo-1">>

\* the request reaches the backend and its answer comes back (ok or not ok)
StartProxied(r) ==
  /\ startReqs < MaxStarts
  /\ startReqs' = startReqs + 1
  /\ BackendStart(r)
  /\ UNCHANGED <<mockIds, sub, page, store, env, dec, panel>>

\* fetch throws (backend unreachable): a mock run id demo-<time>-<random> is
\* returned and nothing is started
StartDemoFallback ==
  /\ startReqs < MaxStarts
  /\ Cardinality(mockIds) < Len(MockIds)
  /\ startReqs' = startReqs + 1
  /\ mockIds' = mockIds \cup {MockIds[Cardinality(mockIds) + 1]}
  /\ UNCHANGED <<backendVars, sub, page, store, env, dec, panel>>

-----------------------------------------------------------------------------
(* Demo events: selectScenario, generateDemoEvents, generateDecisionPacket *)

Scenarios ==
  <<"clean_release", "conditional_release", "partial_release", "hold_approval",
    "hold_documentation", "escalate_compliance", "reject_sanctions",
    "reject_liquidity">>

\* the UTF-16 code units of the run ids of the model
CharCodes(id) ==
  CASE id = "r1" -> <<114, 49>>
    [] id = "r2" -> <<114, 50>>
    [] id = "demo-1" -> <<100, 101, 109, 111, 45, 49>>

RECURSIVE SumSeq(_)
SumSeq(q) == IF q = <<>> THEN 0 ELSE Head(q) + SumSeq(Tail(q))

SelectScenario(runId) == Scenarios[(SumSeq(CharCodes(runId)) % Len(Scenarios)) + 1]

DemoSanctionsStatus(scenario) ==
  IF scenario = "reject_sanctions" THEN "POTENTIAL_MATCH"
  ELSE IF scenario = "escalate_compliance" THEN "REVIEW_REQUIRED"
  ELSE "CLEAR"

DemoLiquidityStatus(scenario) ==
  IF scenario = "reject_liquidity" THEN "INSUFFICIENT"
  ELSE IF scenario = "partial_release" THEN "MARGINAL"
  ELSE "SUFFICIENT"

DemoAmount(scenario) ==
  CASE scenario = "clean_release" -> 150000
    [] scenario = "conditional_release" -> 350000
    [] scenario = "partial_release" -> 750000
    [] scenario = "hold_approval" -> 500000
    [] scenario = "hold_documentation" -> 280000
    [] scenario = "escalate_compliance" -> 420000
    [] scenario = "reject_sanctions" -> 200000
    [] scenario = "reject_liquidity" -> 4500000

DemoProceduresTier(scenario) ==
  IF scenario = "hold_approval" THEN "executive"
  ELSE IF scenario = "hold_documentation" THEN "standard-partial"
  ELSE IF DemoAmount(scenario) > 250000 THEN "elevated"
  ELSE "standard"

GenerateDecisionPacket(scenario) ==
  CASE scenario = "clean_release" ->
         [decision |-> "RELEASE",
          rationale |-> <<"cleared all sanctions screenings",
                          "sufficient liquidity", "within standard limits">>,
          approvers |-> <<"Operations Manager">>]
    [] scenario = "conditional_release" ->
         [decision |-> "RELEASE_WITH_CONDITIONS",
          rationale |-> <<"passed sanctions screening",
                          "exceeds standard threshold", "dual control required">>,
          approvers |-> <<"Operations Manager", "Treasury Director">>]
    [] scenario = "partial_release" ->
         [decision |-> "PARTIAL_RELEASE",
          rationale |-> <<"full amount would reduce buffer",
                          "partial release of 400,000", "remaining 350,000 scheduled">>,
          approvers |-> <<"Treasury Director", "CFO">>]
    [] scenario = "hold_approval" ->
         [decision |-> "HOLD_PENDING_APPROVAL",
          rationale |-> <<"exceeds Operations Manager authority",
                          "Executive Committee approval required",
                          "all compliance checks passed">>,
          approvers |-> <<"Operations Manager", "Executive Committee Member">>]
    [] scenario = "hold_documentation" ->
         [decision |-> "HOLD_PENDING_DOCUMENTATION",
          rationale |-> <<"invoice copy required", "bank confirmation pending",
                          "cannot proceed without documentation">>,
          approvers |-> <<"Documentation Specialist">>]
    [] scenario = "escalate_compliance" ->
         [decision |-> "ESCALATE_COMPLIANCE",
          rationale |-> <<"elevated AML risk jurisdiction",
                          "first-time beneficiary", "enhanced due diligence review">>,
          approvers |-> <<"Compliance Analyst", "Compliance Officer">>]
    [] scenario = "reject_sanctions" ->
         [decision |-> "REJECT_SANCTIONS",
          rationale |-> <<"matches OFAC SDN list entry", "RUSSIA-EO14024",
                          "payment blocking pending investigation">>,
          approvers |-> <<>>]
    [] scenario = "reject_liquidity" ->
         [decision |-> "REJECT_LIQUIDITY",
          rationale |-> <<"exceeds available funds after buffer",
                          "4,000,000 available", "negative buffer position">>,
          approvers |-> <<>>]
    [] OTHER ->
         [decision |-> "HOLD_PENDING_APPROVAL",
          rationale |-> <<"Payment requires manual review">>,
          approvers |-> <<>>]

\* step_started events are pushed without elapsed_ms and payload
StartedKeys == {"run_id", "seq", "type", "step", "agent", "ts"}

\* let seq = 0; every event takes seq++
DemoSeqStart == 0

\* variant: the liquidity step is started while sanctions is still running
GenerateDemoEventsOverlapped(runId, scenario) ==
  LET types == <<"step_started", "step_completed", "step_started", "step_started",
                 "step_completed", "step_completed", "step_started", "step_completed",
                 "step_started", "final">>
      steps == <<"intake", "intake", "sanctions", "liquidity", "sanctions",
                 "liquidity", "procedures", "procedures", "summarize", "summarize">>
  IN [i \in 1..10 |->
        Event(runId, DemoSeqStart + i - 1, types[i], steps[i], "DemoAgent",
              [EmptyPayload EXCEPT !.decision_packet = GenerateDecisionPacket(scenario)],
              AllKeys)]

GenerateDemoEvents(runId, scenario) ==
  LET q == DemoSeqStart
      done(status) == [EmptyPayload EXCEPT !.status = status]
  IN <<
    Event(runId, q, "step_started", "intake", "IntakeAgent", EmptyPayload, StartedKeys),
    Event(runId, q + 1, "step_completed", "intake", "IntakeAgent",
          [EmptyPayload EXCEPT !.payment = TRUE], AllKeys),
    Event(runId, q + 2, "step_started", "sanctions", "SanctionsAgent", EmptyPayload,
          StartedKeys),
    Event(runId, q + 3, "step_completed", "sanctions", "SanctionsAgent",
          done(DemoSanctionsStatus(scenario)), AllKeys),
    Event(runId, q + 4, "step_started", "liquidity", "LiquidityAgent", EmptyPayload,
          StartedKeys),
    Event(runId, q + 5, "step_completed", "liquidity", "LiquidityAgent",
          done(DemoLiquidityStatus(scenario)), AllKeys),
    Event(runId, q + 6, "step_started", "procedures", "ProceduresAgent", EmptyPayload,
          StartedKeys),
    Event(runId, q + 7, "step_completed", "procedures", "ProceduresAgent",
          done(DemoProceduresTier(scenario)), AllKeys),
    Event(runId, q + 8, "step_started", "summarize", "DecisionAgent", EmptyPayload,
          StartedKeys),
    Event(runId, q + 9, "final", "summarize", "DecisionAgent",
          [EmptyPayload EXCEPT !.decision_packet = GenerateDecisionPacket(scenario)],
          AllKeys)
  >>

DemoEvents(runId) == GenerateDemoEvents(runId, SelectScenario(runId))

-----------------------------------------------------------------------------
(* Run page: the EventSource onmessage reducer *)

InitialSteps == [s \in StepSet |-> "pending"]

InitialPage ==
  [events |-> <<>>, steps |-> InitialSteps, decision |-> NoPacket,
   isComplete |-> FALSE, error |-> "null"]

\* setSteps(prev => ({...prev, [step]: {...prev[step], status}}))
SetStep(steps, step, status) ==
  [k \in DOMAIN steps \cup {step} |-> IF k = step THEN status ELSE steps[k]]

\* variant: setEvents(prev => [data, ...prev])
OnMessagePrepend(pg, data) ==
  LET pg1 == [pg EXCEPT !.events = <<data>> \o @]
  IN CASE data.type = "step_started" ->
            [pg1 EXCEPT !.steps = SetStep(@, data.step, "running")]
       [] data.type = "step_completed" ->
            [pg1 EXCEPT !.steps = SetStep(@, data.step, "completed")]
       [] data.type \in {"step_failed", "error"} ->
            [pg1 EXCEPT !.steps = SetStep(@, data.step, "failed"),
                        !.error = data.payload.error]
       [] data.type = "final" ->
            [pg1 EXCEPT !.decision = data.payload.decision_packet,
                        !.steps = SetStep(@, "summarize", "completed"),
                        !.isComplete = TRUE]
       [] OTHER -> pg1

\* variant: a failed step closes the page; later events are only listed
OnMessageStopOnError(pg, data) ==
  LET pg1 == [pg EXCEPT !.events = Append(@, data)]
  IN IF pg.error # "null" THEN pg1
     ELSE CASE data.type = "step_started" ->
                 [pg1 EXCEPT !.steps = SetStep(@, data.step, "running")]
            [] data.type = "step_completed" ->
                 [pg1 EXCEPT !.steps = SetStep(@, data.step, "completed")]
            [] data.type \in {"step_failed", "error"} ->
                 [pg1 EXCEPT !.steps = SetStep(@, data.step, "failed"),
                             !.error = data.payload.error]
            [] data.type = "final" ->
                 [pg1 EXCEPT !.decision = data.payload.decision_packet,
                             !.steps = SetStep(@, "summarize", "completed"),
                             !.isComplete = TRUE]
            [] OTHER -> pg1

OnMessage(pg, data) ==
  LET pg1 == [pg EXCEPT !.events = Append(@, data)]
  IN CASE data.type = "step_started" ->
            [pg1 EXCEPT !.steps = SetStep(@, data.step, "running")]
       [] data.type = "step_completed" ->
            [pg1 EXCEPT !.steps = SetStep(@, data.step, "completed")]
       [] data.type \in {"step_failed", "error"} ->
            [pg1 EXCEPT !.steps = SetStep(@, data.step, "failed"),
                        !.error = data.payload.error]
       [] data.type = "final" ->
            [pg1 EXCEPT !.decision = data.payload.decision_packet,
                        !.steps = SetStep(@, "summarize", "completed"),
                        !.isComplete = TRUE]
       [] OTHER -> pg1

-----------------------------------------------------------------------------
(* Stream relay: GET /api/runbook/stream/[runId] *)

\* mode: idle, relay (read loop), demo (catch block), chat, closed; closedBy: how the
\* stream ended; midRun: the run had events and was not terminal at attach time
IdleSub == [mode |-> "idle", run |-> Undefined, cursor |-> 1, demoIdx |-> 1,
            relayed |-> 0, closedBy |-> "none", midRun |-> FALSE]

\* data: {"type":"error","message":...}
ErrorFrame ==
  [run_id |-> Undefined, seq |-> -1, type |-> "error", step |-> Undefined,
   agent |-> Undefined, payload |-> EmptyPayload, keys |-> {"type", "message"}]

Terminal(r) == runStatus[r] \in {"completed", "failed"}

\* the backend stream of a run: the next event a reader at this cursor gets
BackendChunk(r, cursor) == log[r][cursor]

\* fetch throws: the catch block starts the demo events
ConnectThrows(s, r) ==
  /\ sub[s].mode = "idle"
  /\ sub' = [sub EXCEPT ![s] = [@ EXCEPT !.mode = "demo", !.run = r]]
  /\ UNCHANGED <<backendVars, startReqs, mockIds, page, store, env, dec, panel>>

\* the response is not ok, or has no body: one error frame, then close
ConnectRefused(s, r) ==
  /\ sub[s].mode = "idle"
  /\ sub' = [sub EXCEPT ![s] = [@ EXCEPT !.mode = "closed", !.run = r,
                                          !.closedBy = "refused"]]
  /\ page' = [page EXCEPT ![s] = OnMessage(@, ErrorFrame)]
  /\ UNCHANGED <<backendVars, startReqs, mockIds, store, env, dec, panel>>

\* the backend knows the run and answers with its event stream, from sequence 1
ConnectOk(s, r) ==
  /\ sub[s].mode = "idle"
  /\ r \in DOMAIN runStatus
  /\ runStatus[r] # "none"
  /\ sub' = [sub EXCEPT ![s] = [@ EXCEPT !.mode = "relay", !.run = r, !.cursor = 1,
                                          !.midRun = (log[r] # <<>> /\ ~Terminal(r))]]
  /\ UNCHANGED <<backendVars, startReqs, mockIds, page, store, env, dec, panel>>

\* variant: one reader position per run, which every stream's read advances
RelayChunkShared(s) ==
  /\ sub[s].mode = "relay"
  /\ sub[s].cursor <= Len(log[sub[s].run])
  /\ page' = [page EXCEPT ![s] = OnMessage(@, BackendChunk(sub[s].run, sub[s].cursor))]
  /\ sub' = [t \in DOMAIN sub |->
               IF t = s
                 THEN [sub[t] EXCEPT !.cursor = @ + 1, !.relayed = @ + 1]
                 ELSE IF sub[t].mode = "relay" /\ sub[t].run = sub[s].run
                        THEN [sub[t] EXCEPT !.cursor = sub[s].cursor + 1]
                        ELSE sub[t]]
  /\ UNCHANGED <<backendVars, startReqs, mockIds, store, env, dec, panel>>

\* one turn of the read loop: a chunk is read and enqueued; the page handles it
RelayChunk(s) ==
  /\ sub[s].mode = "relay"
  /\ sub[s].cursor <= Len(log[sub[s].run])
  /\ page' = [page EXCEPT ![s] = OnMessage(@, BackendChunk(sub[s].run, sub[s].cursor))]
  /\ sub' = [sub EXCEPT ![s] = [@ EXCEPT !.cursor = @ + 1, !.relayed = @ + 1]]
  /\ UNCHANGED <<backendVars, startReqs, mockIds, store, env, dec, panel>>

\* variant: the stream is closed as soon as the run is terminal
RelayDoneEarly(s) ==
  /\ sub[s].mode = "relay"
  /\ Terminal(sub[s].run)
  /\ sub' = [sub EXCEPT ![s] = [@ EXCEPT !.mode = "closed", !.closedBy = "done"]]
  /\ UNCHANGED <<backendVars, startReqs, mockIds, page, store, env, dec, panel>>

\* variant: closing the stream ends the run it was reading
DisconnectCancelsRun(s) ==
  /\ sub[s].mode = "relay"
  /\ sub' = [sub EXCEPT ![s] = [@ EXCEPT !.mode = "closed", !.closedBy = "client"]]
  /\ runStatus' = [runStatus EXCEPT ![sub[s].run] =
                     IF @ \in {"pending", "running"} THEN "failed" ELSE @]
  /\ UNCHANGED <<cur, attempts, stepRecords, results, log, packet, execs,
                 internalErr, startReqs, mockIds, page, store, env, dec, panel>>

\* the page is left while its stream is open: the effect's cleanup closes the
\* EventSource; nothing is sent to the backend
Disconnect(s) ==
  /\ sub[s].mode = "relay"
  /\ sub' = [sub EXCEPT ![s] = [@ EXCEPT !.mode = "closed", !.closedBy = "client"]]
  /\ UNCHANGED <<backendVars, startReqs, mockIds, page, store, env, dec, panel>>

\* the connection of an open stream fails: onerror logs, closes the EventSource
\* and creates no new one
StreamDrop(s) ==
  /\ sub[s].mode = "relay"
  /\ sub' = [sub EXCEPT ![s] = [@ EXCEPT !.mode = "closed", !.closedBy = "error"]]
  /\ UNCHANGED <<backendVars, startReqs, mockIds, page, store, env, dec, panel>>

\* the backend closes the stream of a terminal run once all of it was sent
RelayDone(s) ==
  /\ sub[s].mode = "relay"
  /\ sub[s].cursor > Len(log[sub[s].run])
  /\ Terminal(sub[s].run)
  /\ sub' = [sub EXCEPT ![s] = [@ EXCEPT !.mode = "closed", !.closedBy = "done"]]
  /\ UNCHANGED <<backendVars, startReqs, mockIds, page, store, env, dec, panel>>

\* where the catch block of the stream's start() sends the stream
CatchMode(relayed) == "demo"

\* reader.read() throws (the backend connection drops): the same catch block
RelayError(s) ==
  /\ sub[s].mode = "relay"
  /\ sub' = [sub EXCEPT ![s].mode = CatchMode(sub[s].relayed)]
  /\ UNCHANGED <<backendVars, startReqs, mockIds, page, store, env, dec, panel>>

\* for (const event of demoEvents) enqueue, then wait
DemoEmit(s) ==
  /\ sub[s].mode = "demo"
  /\ sub[s].demoIdx <= Len(DemoEvents(sub[s].run))
  /\ page' = [page EXCEPT ![s] = OnMessage(@, DemoEvents(sub[s].run)[sub[s].demoIdx])]
  /\ sub' = [sub EXCEPT ![s].demoIdx = @ + 1]
  /\ UNCHANGED <<backendVars, startReqs, mockIds, store, env, dec, panel>>

DemoClose(s) ==
  /\ sub[s].mode = "demo"
  /\ sub[s].demoIdx > Len(DemoEvents(sub[s].run))
  /\ sub' = [sub EXCEPT ![s] = [@ EXCEPT !.mode = "closed", !.closedBy = "demo"]]
  /\ UNCHANGED <<backendVars, startReqs, mockIds, page, store, env, dec, panel>>

-----------------------------------------------------------------------------
(* Chat route: the mock response of POST /api/chat *)

ChatFrame(type, agent, status, decision) ==
  [type |-> type, agent |-> agent, status |-> status, decision |-> decision]

\* the frames the mock stream enqueues, in order
ChatMockEvents ==
  <<ChatFrame("agent_status", "sanctions-screening-agent", "running", Undefined),
    ChatFrame("agent_status", "sanctions-screening-agent", "completed", "CLEAR"),
    ChatFrame("agent_status", "liquidity-screening-agent", "running", Undefined),
    ChatFrame("agent_status", "liquidity-screening-agent", "completed", "BREACH"),
    ChatFrame("agent_status", "operational-procedures-agent", "running", Undefined),
    ChatFrame("agent_status", "operational-procedures-agent", "completed", "HOLD"),
    ChatFrame("content", Undefined, Undefined, Undefined)>>

\* the backend is not available: the mock stream starts (cursor = next frame)
ChatMock(s) ==
  /\ sub[s].mode = "idle"
  /\ sub' = [sub EXCEPT ![s] = [@ EXCEPT !.mode = "chat", !.cursor = 1]]
  /\ UNCHANGED <<backendVars, startReqs, mockIds, page, store, env, dec, panel>>

ChatEmit(s) ==
  /\ sub[s].mode = "chat"
  /\ sub[s].cursor <= Len(ChatMockEvents)
  /\ sub' = [sub EXCEPT ![s].cursor = @ + 1]
  /\ UNCHANGED <<backendVars, startReqs, mockIds, page, store, env, dec, panel>>

ChatClose(s) ==
  /\ sub[s].mode = "chat"
  /\ sub[s].cursor > Len(ChatMockEvents)
  /\ sub' = [sub EXCEPT ![s] = [@ EXCEPT !.mode = "closed", !.closedBy = "chat"]]
  /\ UNCHANGED <<backendVars, startReqs, mockIds, page, store, env, dec, panel>>

-----------------------------------------------------------------------------
(* Orchestrator store: processEvent *)

MaxStoreEvents == 4

StoreAgents == {"orchestrator", "risk"}

\* create(): status idle, every agent idle, empty plan
InitStore ==
  [status |-> "idle", agents |-> [a \in StoreAgents |-> "idle"], planned |-> {},
   processed |-> 0]

RunKinds ==
  {"run.started", "run_started", "run.completed", "run_completed", "run.failed",
   "run_failed"}

StoreKinds == RunKinds \cup {"orchestrator.plan", "span.started", "span.ended", "stage_x"}

\* the switch of processEvent; a is the agent and ok the success flag of the payload
ProcessEventOn(st, kind, a, ok) ==
  CASE kind \in {"run.started", "run_started"} ->
         [st EXCEPT !.status = "running",
                    !.agents = [x \in StoreAgents |->
                                  IF x = "orchestrator" THEN "running" ELSE "idle"]]
    [] kind \in {"run.completed", "run_completed"} ->
         [st EXCEPT !.status = "completed",
                    !.agents = [x \in StoreAgents |->
                                  IF \/ st.agents[x] \in {"running", "waiting"}
                                     \/ (st.agents[x] = "queued" /\ x \in st.planned)
                                     \/ x = "orchestrator"
                                  THEN "completed" ELSE st.agents[x]]]
    [] kind \in {"run.failed", "run_failed"} ->
         [st EXCEPT !.status = "failed"]
    [] kind = "orchestrator.plan" ->
         [st EXCEPT !.planned = {a}, !.agents[a] = "queued"]
    [] kind = "span.started" ->
         [st EXCEPT !.agents[a] = "running"]
    [] kind = "span.ended" ->
         [st EXCEPT !.agents[a] = IF ok THEN "completed" ELSE "failed"]
    [] OTHER -> st

\* one event of the stream reaches the store
ProcessEvent ==
  /\ store.processed < MaxStoreEvents
  /\ \E kind \in StoreKinds, a \in StoreAgents, ok \in BOOLEAN :
       store' = [ProcessEventOn(store, kind, a, ok) EXCEPT !.processed = @ + 1]
  /\ UNCHANGED <<backendVars, startReqs, mockIds, sub, page, env, dec, panel>>

-----------------------------------------------------------------------------
(* Decision matrices of the READMEs *)

MatrixRow(action, approver) == [action |-> action, approver |-> approver]

NoRow == MatrixRow("none", <<>>)

\* variant: the liquidity column is looked at before the sanctions column
BackendMatrixLiquidityFirst(sanctions, breach) ==
  IF breach THEN MatrixRow("HOLD", <<"Treasury Manager">>)
  ELSE IF sanctions = "BLOCK" THEN MatrixRow("REJECT", <<"Compliance Officer">>)
  ELSE IF sanctions = "ESCALATE"
    THEN MatrixRow("HOLD + Review", <<"Compliance Manager", "MLRO">>)
  ELSE IF sanctions = "CLEAR" THEN MatrixRow("RELEASE", <<"Payments Operator">>)
  ELSE NoRow

\* variant: the breach flag is read inverted
BackendMatrixInverted(sanctions, breach) ==
  IF sanctions = "BLOCK" THEN MatrixRow("REJECT", <<"Compliance Officer">>)
  ELSE IF sanctions = "ESCALATE"
    THEN MatrixRow("HOLD + Review", <<"Compliance Manager", "MLRO">>)
  ELSE IF sanctions = "CLEAR" /\ ~breach THEN MatrixRow("HOLD", <<"Treasury Manager">>)
  ELSE IF sanctions = "CLEAR" THEN MatrixRow("RELEASE", <<"Payments Operator">>)
  ELSE NoRow

\* backend README: Sanctions | Liquidity Breach | Action | Approver
BackendMatrix(sanctions, breach) ==
  IF sanctions = "BLOCK" THEN MatrixRow("REJECT", <<"Compliance Officer">>)
  ELSE IF sanctions = "ESCALATE"
    THEN MatrixRow("HOLD + Review", <<"Compliance Manager", "MLRO">>)
  ELSE IF sanctions = "CLEAR" /\ breach THEN MatrixRow("HOLD", <<"Treasury Manager">>)
  ELSE IF sanctions = "CLEAR" THEN MatrixRow("RELEASE", <<"Payments Operator">>)
  ELSE NoRow

\* variant: a missed cutoff is decided before anything else
MatrixActionCutoffFirst(sanctions, breach, beforeCutoff) ==
  IF ~beforeCutoff
    THEN MatrixRow("REJECT (Cutoff Missed)",
                   IF breach THEN <<"Treasury Manager">> ELSE <<"Payments Operator">>)
  ELSE IF sanctions = "BLOCK"
    THEN MatrixRow("REJECT + Open Case", <<"Compliance Officer">>)
  ELSE IF sanctions = "ESCALATE"
    THEN MatrixRow("HOLD + Compliance Review", <<"Compliance Manager", "MLRO">>)
  ELSE IF sanctions = "CLEAR" /\ breach
    THEN MatrixRow("HOLD + Partial Release Option", <<"Treasury Manager">>)
  ELSE IF sanctions = "CLEAR" THEN MatrixRow("PROCEED", <<"Payments Operator">>)
  ELSE NoRow

\* project README: Sanctions | Liquidity Breach | Before Cutoff | Action | Approver
MatrixAction(sanctions, breach, beforeCutoff) ==
  IF sanctions = "BLOCK" THEN MatrixRow("REJECT + Open Case", <<"Compliance Officer">>)
  ELSE IF sanctions = "ESCALATE"
    THEN MatrixRow("HOLD + Compliance Review", <<"Compliance Manager", "MLRO">>)
  ELSE IF sanctions = "CLEAR" /\ breach /\ beforeCutoff
    THEN MatrixRow("HOLD + Partial Release Option", <<"Treasury Manager">>)
  ELSE IF sanctions = "CLEAR" /\ breach
    THEN MatrixRow("REJECT (Cutoff Missed)", <<"Treasury Manager">>)
  ELSE IF sanctions = "CLEAR" /\ beforeCutoff
    THEN MatrixRow("PROCEED", <<"Payments Operator">>)
  ELSE IF sanctions = "CLEAR"
    THEN MatrixRow("REJECT (Cutoff Missed)", <<"Payments Operator">>)
  ELSE NoRow

-----------------------------------------------------------------------------
(* Decision bench: decide, the README matrices and generateDecisionPacket *)
(* applied to drawn inputs, each up to MaxCalls times                      *)

MaxCalls == 2

BaseProcessingMs == 4200

\* values of Math.floor(Math.random() * 1000)
RandomMs == {0, 999}

DecSanctions ==
  {"CLEAR", "BLOCK", "ESCALATE", "POTENTIAL_MATCH", "CONFIRMED_MATCH",
   "REVIEW_REQUIRED", "FAILED"}

DecLiquidity ==
  {"SUFFICIENT", "BREACH", "INSUFFICIENT", "MARGINAL", "REQUIRES_FUNDING", "FAILED"}

DecProcedures == {"NONE", "CONDITIONS", "FAILED"}

IdleDec == [phase |-> "idle"]

\* backend README, Get Workflow Result: the DecisionPacket of a payment with
\* clear sanctions that breaches the buffer by $125,000
ExamplePacket ==
  [decision |-> "HOLD",
   rationale |-> <<"Sanctions screening: CLEAR (100% confidence)",
                   "Liquidity assessment: BREACH detected",
                   "Final action: HOLD",
                   "Payment would breach buffer by $125,000">>,
   approvers |-> <<"Treasury Manager">>]

ResultExample(sanctions, breach) ==
  IF sanctions = "CLEAR" /\ breach THEN ExamplePacket ELSE NoPacket

EngineBench(s, l, p, beforeCutoff) ==
  [phase |-> "engine", s |-> s, l |-> l, p |-> p, beforeCutoff |-> beforeCutoff,
   out |-> <<>>, backend |-> NoRow, matrix |-> NoRow, example |-> NoPacket]

DemoBench(scenario) ==
  [phase |-> "demo", scenario |-> scenario, clock |-> 0, out |-> <<>>]

\* basePacket: timestamp and processing_time_ms are taken from the clock and
\* from Math.random() at each call; the rest is the scenario's packet
DemoPacket(scenario, now, rnd) ==
  [timestamp |-> now, processing_time_ms |-> BaseProcessingMs + rnd,
   decision |-> GenerateDecisionPacket(scenario).decision,
   rationale |-> GenerateDecisionPacket(scenario).rationale,
   approvers |-> GenerateDecisionPacket(scenario).approvers]

benchRest == <<runStatus, cur, attempts, stepRecords, results, log, packet, execs,
               startReqs, internalErr, mockIds, sub, page, store, env, panel>>

DecideCall ==
  /\ dec.phase = "engine"
  /\ Len(dec.out) < MaxCalls
  /\ dec' = [dec EXCEPT !.out = Append(@, Decide(dec.s, dec.l, dec.p))]
  /\ UNCHANGED benchRest

\* the rows of the two README matrices for inputs the matrices name
MatrixLookup ==
  /\ dec.phase = "engine"
  /\ dec.matrix = NoRow
  /\ dec.s \in {"BLOCK", "ESCALATE", "CLEAR"}
  /\ dec.l \in {"SUFFICIENT", "BREACH"}
  /\ dec' = [dec EXCEPT !.backend = BackendMatrix(dec.s, dec.l = "BREACH"),
                        !.matrix = MatrixAction(dec.s, dec.l = "BREACH",
                                                dec.beforeCutoff),
                        !.example = ResultExample(dec.s, dec.l = "BREACH")]
  /\ UNCHANGED benchRest

DemoPacketCall ==
  /\ dec.phase = "demo"
  /\ Len(dec.out) < MaxCalls
  /\ \E now \in {dec.clock, dec.clock + 1}, rnd \in RandomMs :
       dec' = [dec EXCEPT !.out = Append(@, DemoPacket(dec.scenario, now, rnd)),
                          !.clock = now]
  /\ UNCHANGED benchRest

-----------------------------------------------------------------------------
(* Chat panel: PII status of the message input *)

MaxSends == 2

\* what the user may have in the input field: nothing, a message with personal
\* data, the same with a trailing blank, a harmless message
PanelInputs == {"", "ssn", "ssn ", "hi"}

\* String.prototype.trim
Trim(text) == IF text = "ssn " THEN "ssn" ELSE text

IdlePanel ==
  [input |-> "", isLoading |-> FALSE, piiStatus |-> "idle", piiError |-> "null",
   blockedMessage |-> "null", showPassedBanner |-> FALSE,
   bannerTimeout |-> FALSE, passedTimeout |-> FALSE,
   call |-> "none", messageText |-> "null", sends |-> 0]

\* useEffect on [input, piiStatus, blockedMessage]: a blocked status is reset
\* when the input differs from the blocked message
ResetOnInputChange(p) ==
  IF p.piiStatus = "blocked" /\ p.input # p.blockedMessage
  THEN [p EXCEPT !.piiStatus = "idle", !.piiError = "null"]
  ELSE p

panelRest == <<runStatus, cur, attempts, stepRecords, results, log, packet, execs,
               startReqs, internalErr, mockIds, sub, page, store, env, dec>>

\* onChange of the input field, or a click on a suggestion
EditInput(v) ==
  /\ panel.piiStatus # "checking"
  /\ v # panel.input
  /\ panel' = ResetOnInputChange([panel EXCEPT !.input = v])
  /\ UNCHANGED panelRest

\* handleSend up to its first await: the pending timeouts are cleared and the
\* PII check is started
HandleSend ==
  /\ Trim(panel.input) # ""
  /\ ~panel.isLoading
  /\ panel.piiStatus # "checking"
  /\ panel.call = "none"
  /\ panel.sends < MaxSends
  /\ panel' = [panel EXCEPT !.bannerTimeout = FALSE, !.passedTimeout = FALSE,
                            !.piiStatus = "checking", !.piiError = "null",
                            !.call = "pii", !.messageText = Trim(panel.input),
                            !.sends = @ + 1]
  /\ UNCHANGED panelRest

\* the chat response is blocked or an error pii_detected: the status is set to
\* blocked and the message is put back into the input
BackendBlocked(p) ==
  [p EXCEPT !.piiStatus = "blocked", !.piiError = "pii_detected",
            !.blockedMessage = p.messageText, !.input = p.messageText,
            !.isLoading = FALSE, !.call = "none"]

\* checkPii has answered (a failed check counts as not blocked): the message is
\* blocked, or the status is passed, both timeouts are set, the input is
\* cleared and the chat request is sent
PiiChecked(blocked) ==
  /\ panel.call = "pii"
  /\ panel' =
       IF blocked
       THEN ResetOnInputChange(
              [panel EXCEPT !.piiStatus = "blocked", !.piiError = "pii_detected",
                            !.blockedMessage = panel.messageText,
                            !.call = "none"])
       ELSE [panel EXCEPT !.piiStatus = "passed", !.showPassedBanner = TRUE,
                          !.bannerTimeout = TRUE, !.passedTimeout = TRUE,
                          !.input = "", !.blockedMessage = "null",
                          !.isLoading = TRUE, !.call = "chat"]
  /\ UNCHANGED panelRest

\* the chat request has returned or thrown
ChatAnswered(blocked) ==
  /\ panel.call = "chat"
  /\ panel' =
       IF blocked
       THEN ResetOnInputChange(BackendBlocked(panel))
       ELSE [panel EXCEPT !.isLoading = FALSE, !.call = "none"]
  /\ UNCHANGED panelRest

\* setTimeout(() => setShowPassedBanner(false), 2000)
BannerTimeout ==
  /\ panel.bannerTimeout
  /\ panel' = [panel EXCEPT !.bannerTimeout = FALSE, !.showPassedBanner = FALSE]
  /\ UNCHANGED panelRest

\* setTimeout(() => setPiiStatus("idle"), 3000)
PassedTimeout ==
  /\ panel.passedTimeout
  /\ panel' = ResetOnInputChange([panel EXCEPT !.passedTimeout = FALSE,
                                               !.piiStatus = "idle"])
  /\ UNCHANGED panelRest

\* the button "Restore message to edit" of the blocked banner
HandleRestoreMessage ==
  /\ panel.piiStatus = "blocked"
  /\ panel.blockedMessage # "null"
  /\ panel' = [panel EXCEPT !.input = panel.blockedMessage, !.piiStatus = "idle",
                            !.piiError = "null"]
  /\ UNCHANGED panelRest

-----------------------------------------------------------------------------
(* Specifications *)

InitWith(agentEnv) ==
  /\ runStatus = [r \in RunIds |-> "none"]
  /\ cur = [r \in RunIds |-> [idx |-> 1, phase |-> "enter"]]
  /\ attempts = [r \in RunIds |-> 0]
  /\ stepRecords = [r \in RunIds |-> NoRecords]
  /\ results = [r \in RunIds |-> NoResults]
  /\ log = [r \in RunIds |-> <<>>]
  /\ packet = [r \in RunIds |-> NoPacket]
  /\ execs = [r \in RunIds |-> 0]
  /\ startReqs = 0
  /\ internalErr = [r \in RunIds |-> FALSE]
  /\ mockIds = {}
  /\ sub = [s \in Subs |-> IdleSub]
  /\ page = [s \in Subs |-> InitialPage]
  /\ store = InitStore
  /\ env = agentEnv
  /\ panel = IdlePanel
  /\ dec = IdleDec

\* the start route and the orchestrator's pipeline
Init == InitWith(AgentEnv)

Next ==
  \/ \E r \in RunIds : StartProxied(r)
  \/ StartDemoFallback
  \/ \E r \in RunIds : BeginExecution(r)
  \/ \E r \in RunIds : EnterStep(r)
  \/ \E r \in RunIds : CompleteIntake(r)
  \/ \E r \in RunIds : AgentCall(r)
  \/ \E r \in RunIds : Summarize(r)
  \/ \E r \in RunIds : InternalFailure(r)

Spec == Init /\ [][Next]_vars

\* a run, the stream relay of its subscribers and their run pages
InitStream == InitWith(StreamAgentEnv)

NextStream ==
  \/ \E r \in RunIds : StartProxied(r)
  \/ \E r \in RunIds : BeginExecution(r)
  \/ \E r \in RunIds : EnterStep(r)
  \/ \E r \in RunIds : CompleteIntake(r)
  \/ \E r \in RunIds : AgentCall(r)
  \/ \E r \in RunIds : Summarize(r)
  \/ \E r \in RunIds : InternalFailure(r)
  \/ \E s \in Subs, r \in RunIds : ConnectThrows(s, r)
  \/ \E s \in Subs, r \in RunIds : ConnectRefused(s, r)
  \/ \E s \in Subs, r \in RunIds : ConnectOk(s, r)
  \/ \E s \in Subs : RelayChunk(s)
  \/ \E s \in Subs : RelayDone(s)
  \/ \E s \in Subs : RelayError(s)
  \/ \E s \in Subs : DemoEmit(s)
  \/ \E s \in Subs : DemoClose(s)
  \/ \E s \in Subs : ChatMock(s)
  \/ \E s \in Subs : ChatEmit(s)
  \/ \E s \in Subs : ChatClose(s)

SpecStream == InitStream /\ [][NextStream]_vars

\* one run's EventLog with two writers and two subscribers of its stream
LogSubs == {"s1", "s2"}

LogAgentEnv ==
  [results |-> [sanctions |-> {"CLEAR"}, liquidity |-> {"BREACH"},
                procedures |-> {"NONE"}],
   failures |-> {}]

InitLog ==
  /\ runStatus = [r \in RunIds |-> "none"]
  /\ cur = [r \in RunIds |-> [idx |-> 1, phase |-> "enter"]]
  /\ attempts = [r \in RunIds |-> 0]
  /\ stepRecords = [r \in RunIds |-> NoRecords]
  /\ results = [r \in RunIds |-> NoResults]
  /\ log = [r \in RunIds |-> <<>>]
  /\ packet = [r \in RunIds |-> NoPacket]
  /\ execs = [r \in RunIds |-> 0]
  /\ startReqs = 0
  /\ internalErr = [r \in RunIds |-> FALSE]
  /\ mockIds = {}
  /\ sub = [s \in LogSubs |-> IdleSub]
  /\ page = [s \in LogSubs |-> InitialPage]
  /\ store = InitStore
  /\ env = LogAgentEnv
  /\ panel = IdlePanel
  /\ dec = IdleDec

NextLog ==
  \/ \E r \in RunIds : StartProxied(r)
  \/ \E r \in RunIds : BeginExecution(r)
  \/ \E r \in RunIds : EnterStep(r)
  \/ \E r \in RunIds : CompleteIntake(r)
  \/ \E r \in RunIds : AgentCall(r)
  \/ \E r \in RunIds : Summarize(r)
  \/ \E r \in RunIds : ExternalAppend(r)
  \/ \E s \in LogSubs, r \in RunIds : ConnectOk(s, r)
  \/ \E s \in LogSubs : RelayChunk(s)
  \/ \E s \in LogSubs : RelayDone(s)

SpecLog == InitLog /\ [][NextLog]_vars

\* a run and one subscriber of its stream that may leave at any time
NextSub ==
  \/ \E r \in RunIds : StartProxied(r)
  \/ \E r \in RunIds : BeginExecution(r)
  \/ \E r \in RunIds : EnterStep(r)
  \/ \E r \in RunIds : CompleteIntake(r)
  \/ \E r \in RunIds : AgentCall(r)
  \/ \E r \in RunIds : Summarize(r)
  \/ \E s \in Subs, r \in RunIds : ConnectOk(s, r)
  \/ \E s \in Subs : RelayChunk(s)
  \/ \E s \in Subs : RelayDone(s)
  \/ \E s \in Subs : Disconnect(s)

SpecSub == InitStream /\ [][NextSub]_vars

\* the read loop of an open stream keeps running
SpecSubFair ==
  /\ SpecSub
  /\ \A s \in Subs : WF_vars(RelayChunk(s)) /\ WF_vars(RelayDone(s))

\* a run page whose connection may fail while its stream is open
NextRestart ==
  \/ \E r \in RunIds : StartProxied(r)
  \/ \E r \in RunIds : BeginExecution(r)
  \/ \E r \in RunIds : EnterStep(r)
  \/ \E r \in RunIds : CompleteIntake(r)
  \/ \E r \in RunIds : AgentCall(r)
  \/ \E r \in RunIds : Summarize(r)
  \/ \E s \in Subs, r \in RunIds : ConnectOk(s, r)
  \/ \E s \in Subs : RelayChunk(s)
  \/ \E s \in Subs : RelayDone(s)
  \/ \E s \in Subs : StreamDrop(s)

\* the run's task and the read loop of an open stream keep running; a failing
\* connection is the environment's choice
SpecRestart ==
  /\ InitStream /\ [][NextRestart]_vars
  /\ \A r \in RunIds : WF_vars(BeginExecution(r)) /\ WF_vars(PipelineStep(r))
  /\ \A s \in Subs : WF_vars(RelayChunk(s)) /\ WF_vars(RelayDone(s))

\* two runs driven concurrently, each by its own task, and one subscriber
TwoRuns == {"r1", "r2"}

InitRuns ==
  /\ runStatus = [r \in TwoRuns |-> "none"]
  /\ cur = [r \in TwoRuns |-> [idx |-> 1, phase |-> "enter"]]
  /\ attempts = [r \in TwoRuns |-> 0]
  /\ stepRecords = [r \in TwoRuns |-> NoRecords]
  /\ results = [r \in TwoRuns |-> NoResults]
  /\ log = [r \in TwoRuns |-> <<>>]
  /\ packet = [r \in TwoRuns |-> NoPacket]
  /\ execs = [r \in TwoRuns |-> 0]
  /\ startReqs = 0
  /\ internalErr = [r \in TwoRuns |-> FALSE]
  /\ mockIds = {}
  /\ sub = [s \in Subs |-> IdleSub]
  /\ page = [s \in Subs |-> InitialPage]
  /\ store = InitStore
  /\ env = LogAgentEnv
  /\ panel = IdlePanel
  /\ dec = IdleDec

NextRuns ==
  \/ \E r \in TwoRuns : StartProxied(r)
  \/ \E r \in TwoRuns : BeginExecution(r)
  \/ \E r \in TwoRuns : EnterStep(r)
  \/ \E r \in TwoRuns : CompleteIntake(r)
  \/ \E r \in TwoRuns : AgentCall(r)
  \/ \E r \in TwoRuns : Summarize(r)
  \/ \E s \in Subs, r \in TwoRuns : ConnectOk(s, r)
  \/ \E s \in Subs : RelayChunk(s)
  \/ \E s \in Subs : RelayDone(s)

SpecRuns == InitRuns /\ [][NextRuns]_vars

-----------------------------------------------------------------------------
(* Agent registry and compilePlan *)

Agent(id, category, order, hasTrigger) ==
  [id |-> id, category |-> category, order |-> order, includeTrigger |-> hasTrigger]

\* the registry's agents in the order of the array
AGENT_REGISTRY ==
  << Agent("policy_agent", "core", 1, FALSE),
     Agent("market_agent", "core", 2, FALSE),
     Agent("data_quality_agent", "core", 3, FALSE),
     Agent("risk_agent", "core", 4, FALSE),
     Agent("return_agent", "core", 5, FALSE),
     Agent("optimizer_agent", "core", 10, FALSE),
     Agent("compliance_agent", "core", 11, FALSE),
     Agent("explain_memo_agent", "core", 20, FALSE),
     Agent("audit_provenance_agent", "core", 21, FALSE),
     Agent("scenario_stress_agent", "conditional", 12, TRUE),
     Agent("liquidity_tc_agent", "conditional", 13, TRUE),
     Agent("hedge_tail_agent", "conditional", 14, TRUE),
     Agent("challenger_optimizer_agent", "conditional", 9, TRUE),
     Agent("red_team_agent", "conditional", 15, TRUE),
     Agent("rebalance_planner_agent", "conditional", 18, TRUE),
     Agent("constraint_repair_agent", "runtime", 16, FALSE) >>

\* the fields of PolicyInput the inclusion triggers read, each with values on
\* both sides of the triggers' thresholds
Policies ==
  [riskTolerance : {"conservative", "moderate", "aggressive", "very_aggressive"},
   maxDrawdownPct : {15, 16},
   timeHorizon : {"<3y", "3-7y"},
   rebalanceFrequency : {"monthly", "quarterly", "semi_annual", "annual"},
   minPositions : {19, 20},
   maxSinglePositionPct : {5, 6},
   themes : {<<>>, <<"ai">>},
   targetReturnPct : {9, 10}]

\* agent.includeTrigger(policy).include
IncludeTrigger(id, policy) ==
  CASE id = "scenario_stress_agent" ->
         \/ policy.riskTolerance = "conservative"
         \/ policy.maxDrawdownPct <= 15
         \/ policy.timeHorizon = "<3y"
    [] id = "liquidity_tc_agent" ->
         \/ policy.rebalanceFrequency \in {"monthly", "quarterly"}
         \/ policy.minPositions >= 20
         \/ policy.maxSinglePositionPct <= 5
    [] id = "hedge_tail_agent" ->
         \/ policy.maxDrawdownPct <= 15
         \/ policy.riskTolerance = "conservative"
    [] id = "challenger_optimizer_agent" ->
         \/ policy.riskTolerance \in {"aggressive", "very_aggressive"}
         \/ Len(policy.themes) > 0
         \/ policy.targetReturnPct >= 10
    [] id = "red_team_agent" ->
         policy.riskTolerance \in {"aggressive", "very_aggressive"}
    [] id = "rebalance_planner_agent" ->
         policy.rebalanceFrequency # "annual"

\* q without its element at position m
RemoveAt(q, m) == SubSeq(q, 1, m - 1) \o SubSeq(q, m + 1, Len(q))

\* [...].sort((a, b) => a.order - b.order): ascending by order, stable
RECURSIVE SortByOrder(_)
SortByOrder(q) ==
  IF q = <<>> THEN <<>>
  ELSE LET m == CHOOSE i \in DOMAIN q :
                  \A j \in DOMAIN q :
                    \/ q[i].order < q[j].order
                    \/ q[i].order = q[j].order /\ i <= j
       IN <<q[m]>> \o SortByOrder(RemoveAt(q, m))

IsSelected(agent, policy) ==
  \/ agent.category = "core"
  \/ /\ agent.category = "conditional"
     /\ agent.includeTrigger
     /\ IncludeTrigger(agent.id, policy)

IsExcluded(agent, policy) ==
  /\ agent.category = "conditional"
  /\ agent.includeTrigger
  /\ ~IncludeTrigger(agent.id, policy)

\* variant: the execution order is the order of selection
CompilePlanUnsorted(policy) ==
  LET selected == SelectSeq(AGENT_REGISTRY, LAMBDA a : IsSelected(a, policy))
  IN [selected |-> selected,
      excluded |-> SelectSeq(AGENT_REGISTRY, LAMBDA a : IsExcluded(a, policy)),
      executionOrder |-> selected]

\* compilePlan(policy): one pass over the registry, then the sort
CompilePlan(policy) ==
  LET selected == SelectSeq(AGENT_REGISTRY, LAMBDA a : IsSelected(a, policy))
  IN [selected |-> selected,
      excluded |-> SelectSeq(AGENT_REGISTRY, LAMBDA a : IsExcluded(a, policy)),
      executionOrder |-> SortByOrder(selected)]

NoPlan == [selected |-> <<>>, excluded |-> <<>>, executionOrder |-> <<>>]

PlanBench(policy) == [phase |-> "plan", policy |-> policy, plan |-> NoPlan]

CompilePlanCall ==
  /\ dec.phase = "plan"
  /\ dec.plan = NoPlan
  /\ dec' = [dec EXCEPT !.plan = CompilePlan(dec.policy)]
  /\ UNCHANGED benchRest

\* compilePlan applied to every policy
InitPlan ==
  /\ runStatus = [r \in RunIds |-> "none"]
  /\ cur = [r \in RunIds |-> [idx |-> 1, phase |-> "enter"]]
  /\ attempts = [r \in RunIds |-> 0]
  /\ stepRecords = [r \in RunIds |-> NoRecords]
  /\ results = [r \in RunIds |-> NoResults]
  /\ log = [r \in RunIds |-> <<>>]
  /\ packet = [r \in RunIds |-> NoPacket]
  /\ execs = [r \in RunIds |-> 0]
  /\ startReqs = 0
  /\ internalErr = [r \in RunIds |-> FALSE]
  /\ mockIds = {}
  /\ sub = [s \in Subs |-> IdleSub]
  /\ page = [s \in Subs |-> InitialPage]
  /\ store = InitStore
  /\ env = AgentEnv
  /\ panel = IdlePanel
  /\ dec \in {PlanBench(policy) : policy \in Policies}

NextPlan == CompilePlanCall

SpecPlan == InitPlan /\ [][NextPlan]_vars

\* the chat panel under every order of the user's actions, the answers and the
\* timeouts
NextPanel ==
  \/ \E v \in PanelInputs : EditInput(v)
  \/ HandleSend
  \/ \E blocked \in BOOLEAN : PiiChecked(blocked)
  \/ \E blocked \in BOOLEAN : ChatAnswered(blocked)
  \/ BannerTimeout
  \/ PassedTimeout
  \/ HandleRestoreMessage

SpecPanel == Init /\ [][NextPanel]_vars

\* the decision functions applied to every input
InitDecide ==
  /\ runStatus = [r \in RunIds |-> "none"]
  /\ cur = [r \in RunIds |-> [idx |-> 1, phase |-> "enter"]]
  /\ attempts = [r \in RunIds |-> 0]
  /\ stepRecords = [r \in RunIds |-> NoRecords]
  /\ results = [r \in RunIds |-> NoResults]
  /\ log = [r \in RunIds |-> <<>>]
  /\ packet = [r \in RunIds |-> NoPacket]
  /\ execs = [r \in RunIds |-> 0]
  /\ startReqs = 0
  /\ internalErr = [r \in RunIds |-> FALSE]
  /\ mockIds = {}
  /\ sub = [s \in Subs |-> IdleSub]
  /\ page = [s \in Subs |-> InitialPage]
  /\ store = InitStore
  /\ env = AgentEnv
  /\ panel = IdlePanel
  /\ dec \in {EngineBench(s, l, p, c) :
                s \in DecSanctions, l \in DecLiquidity, p \in DecProcedures,
                c \in BOOLEAN}
            \cup {DemoBench(sc) : sc \in {Scenarios[i] : i \in DOMAIN Scenarios}}

NextDecide ==
  \/ DecideCall
  \/ MatrixLookup
  \/ DemoPacketCall

SpecDecide == InitDecide /\ [][NextDecide]_vars

\* the pipeline with its task scheduled: a started run is begun, and a running
\* run's next step is taken (an agent call returns or times out)
SpecFair ==
  /\ Spec
  /\ \A r \in RunIds : WF_vars(BeginExecution(r)) /\ WF_vars(PipelineStep(r))

\* the orchestrator store fed by an event stream
NextStore == ProcessEvent

SpecStore == Init /\ [][NextStore]_vars

-----------------------------------------------------------------------------
(* Properties *)

StepIndex(step) == CHOOSE i \in 1..Len(Steps) : Steps[i] = step

IsPrefix(a, b) == Len(a) <= Len(b) /\ a = SubSeq(b, 1, Len(a))

\* the demo events a stream has enqueued so far
DemoEmitted(s) ==
  IF sub[s].mode = "demo" \/ sub[s].closedBy = "demo"
  THEN SubSeq(DemoEvents(sub[s].run), 1, sub[s].demoIdx - 1)
  ELSE <<>>

\* the chat frames a mock stream has enqueued so far, as step events
StepOfAgent(agent) ==
  IF \E st \in AgentSteps : AgentOf(st) = agent
  THEN CHOOSE st \in AgentSteps : AgentOf(st) = agent
  ELSE Undefined

ChatEmitted(s) ==
  IF sub[s].mode = "chat" \/ sub[s].closedBy = "chat"
  THEN [i \in 1..(sub[s].cursor - 1) |->
          [type |-> CASE ChatMockEvents[i].status = "running" -> "step_started"
                      [] ChatMockEvents[i].status = "completed" -> "step_completed"
                      [] OTHER -> ChatMockEvents[i].type,
           step |-> StepOfAgent(ChatMockEvents[i].agent)]]
  ELSE <<>>

\* in the stream q no step after position first is started before the step
\* preceding it in Steps has ended
Sequential(q, first) ==
  \A i \in DOMAIN q :
    (q[i].type = "step_started" /\ StepIndex(q[i].step) > first) =>
      \E j \in 1..(i - 1) :
        /\ q[j].step = Steps[StepIndex(q[i].step) - 1]
        /\ q[j].type \in {"step_completed", "step_failed"}

\* C1: for every run the sequence numbers of its events, those of the EventLog
\* and those the stream route generates for the run, are 1, 2, 3, ... without
\* gap: the i-th event of the run carries seq = i.
C1_SeqFromOne ==
  /\ \A r \in RunIds : \A i \in DOMAIN log[r] : log[r][i].seq = i
  /\ \A s \in Subs : \A i \in DOMAIN DemoEmitted(s) : DemoEmitted(s)[i].seq = i

\* C2: within one run the steps run one after the other in the order intake,
\* sanctions, liquidity, procedures, summarize: a step has a step_started
\* event, or a StepRecord that left pending, only after the step before it
\* ended completed or failed. Holds for the orchestrator's log and records,
\* for the generated demo events and for the chat mock's agent frames.
C2_StepsSequential ==
  /\ \A r \in RunIds :
       /\ Sequential(log[r], 1)
       /\ \A k \in 2..Len(Steps) :
            stepRecords[r][Steps[k]].status # "pending" =>
              stepRecords[r][Steps[k - 1]].status \in {"completed", "failed"}
  /\ \A s \in Subs :
       /\ Sequential(DemoEmitted(s), 1)
       /\ Sequential(ChatEmitted(s), 2)

C2_Witness ==
  \E s \in Subs, r \in RunIds :
    /\ sub[s].mode = "demo"
    /\ sub[s].demoIdx > 5
    /\ stepRecords[r]["sanctions"].status = "failed"
    /\ stepRecords[r]["liquidity"].status = "running"

C4_DeliveryInAppendOrder ==
  \A s \in Subs :
    sub[s].relayed > 0 => IsPrefix(page[s].events, log[sub[s].run])

\* C5: a run id has at most one execution, however often it is started, and
\* its log has one writer: no two of its events carry the same number.
C5_OneExecutionPerRun ==
  \A r \in RunIds :
    /\ execs[r] <= 1
    /\ \A i, j \in DOMAIN log[r] : log[r][i].seq = log[r][j].seq => i = j

C5_Witness ==
  \E r \in RunIds :
    /\ startReqs = 2
    /\ mockIds = {}
    /\ execs[r] = 1
    /\ runStatus[r] = "completed"

\* C6: every final event carries a DecisionPacket, and a page that is marked
\* complete holds a decision.
C6_CompleteHoldsDecision ==
  /\ \A r \in RunIds : \A i \in DOMAIN log[r] :
       log[r][i].type = "final" => log[r][i].payload.decision_packet # NoPacket
  /\ \A s \in Subs : page[s].isComplete => page[s].decision # NoPacket

\* C7: an agent failure never fails the run. The run is failed only after an
\* internal error; after a failed agent step the pipeline is at a later step
\* and still running, or completed; a completed run has every step terminal;
\* and a page that was relayed such a run to its end is complete.
C7_AgentFailureNeverFailsRun ==
  /\ \A r \in RunIds :
       /\ runStatus[r] = "failed" => internalErr[r]
       /\ \A st \in AgentSteps :
            (stepRecords[r][st].status = "failed" /\ ~internalErr[r]) =>
              /\ runStatus[r] \in {"running", "completed"}
              /\ cur[r].idx > StepIndex(st)
              /\ cur[r].phase = "done" => runStatus[r] = "completed"
       /\ runStatus[r] = "completed" =>
            /\ \A st \in StepSet : stepRecords[r][st].status \in {"completed", "failed"}
            /\ stepRecords[r]["summarize"].status = "completed"
  /\ \A s \in Subs :
       (sub[s].closedBy = "done" /\ ~internalErr[sub[s].run]) =>
         /\ page[s].isComplete
         /\ page[s].steps["summarize"] = "completed"

C7_Witness ==
  \E s \in Subs :
    /\ sub[s].closedBy = "done"
    /\ runStatus[sub[s].run] = "completed"
    /\ page[s].steps["sanctions"] = "failed"
    /\ page[s].steps["procedures"] = "failed"
    /\ page[s].isComplete

\* C8: when one of the sanctions, liquidity and procedures steps ended failed,
\* the decision of the run, in its DecisionPacket and in its final event, is no
\* release.
C8_FailedStepNeverReleases ==
  \A r \in RunIds :
    (\E st \in AgentSteps : results[r][st] = "FAILED") =>
      /\ packet[r].decision \notin ReleaseDecisions
      /\ \A i \in DOMAIN log[r] :
           log[r][i].type = "final" => log[r][i].payload.decision \notin ReleaseDecisions

C8_Witness ==
  \E r \in RunIds :
    /\ results[r] = [sanctions |-> "CLEAR", liquidity |-> "SUFFICIENT",
                     procedures |-> "FAILED"]
    /\ runStatus[r] = "completed"
    /\ packet[r].decision = "HOLD"

\* C9: a run whose sanctions step failed on timeouts is completed with a
\* step_failed event of the sanctions step, the decision ESCALATE_COMPLIANCE,
\* a "manual review required" entry in the rationale and approvers.
C9_SanctionsTimeoutEscalates ==
  \A r \in RunIds :
    (stepRecords[r]["sanctions"] = [status |-> "failed", error |-> "timeout"]
       /\ cur[r].phase = "done" /\ ~internalErr[r]) =>
      /\ runStatus[r] = "completed"
      /\ \E i \in DOMAIN log[r] :
           log[r][i].type = "step_failed" /\ log[r][i].step = "sanctions"
      /\ packet[r].decision = "ESCALATE_COMPLIANCE"
      /\ \E i \in DOMAIN packet[r].rationale :
           packet[r].rationale[i] = <<"note", "manual review required">>
      /\ packet[r].approvers # <<>>

\* C11: no two appends of a run receive the same sequence number, with the
\* orchestrator and a second writer appending to the run in any interleaving:
\* the run's events carry as many different numbers as there are events.
C11_SeqAssignedOnce ==
  \A r \in RunIds :
    Cardinality({log[r][i].seq : i \in DOMAIN log[r]}) = Len(log[r])

C11_Witness ==
  \E r \in RunIds :
    /\ ExternalEvents(r) # {}
    /\ \E i \in ExternalEvents(r) : 1 < i /\ i < Len(log[r])
    /\ runStatus[r] = "completed"

\* C12: the log is append-only: an event appended at (run, seq) stays at that
\* position with the same content in every later state, and the list of events
\* a page keeps of the stream only grows at its end.
C12_AppendOnly ==
  [][/\ \A r \in RunIds : \A i \in DOMAIN log[r] :
          i \in DOMAIN log'[r] /\ log'[r][i] = log[r][i]
     /\ \A s \in LogSubs : IsPrefix(page[s].events, page'[s].events)]_vars

C12_Witness ==
  \E r \in RunIds, s \in LogSubs :
    /\ Len(log[r]) > 10
    /\ sub[s].run = r
    /\ page[s].events = log[r]

\* C19: two subscribers that read the same run from sequence 1 observe the same
\* sequence of events: at any time one has a prefix of what the other has, each
\* one's position is what it has received itself, and once both streams are
\* done both hold the whole log.
C19_SubscribersAgree ==
  \A s \in LogSubs :
    sub[s].mode \in {"relay", "closed"} =>
      /\ sub[s].cursor = Len(page[s].events) + 1
      /\ IsPrefix(page[s].events, log[sub[s].run])
      /\ \A t \in LogSubs :
           (sub[t].mode \in {"relay", "closed"} /\ sub[t].run = sub[s].run) =>
             /\ \/ IsPrefix(page[s].events, page[t].events)
                \/ IsPrefix(page[t].events, page[s].events)
             /\ (sub[s].closedBy = "done" /\ sub[t].closedBy = "done") =>
                  page[s].events = page[t].events

C19_Witness ==
  \E s, t \in LogSubs :
    /\ s # t
    /\ sub[s].run = sub[t].run
    /\ sub[s].closedBy = "done"
    /\ sub[t].closedBy = "done"
    /\ page[s].events = page[t].events
    /\ Len(page[s].events) > 10
    /\ ExternalEvents(sub[s].run) # {}

\* C20: reading a run's log from sequence N, and again from N after more
\* events were appended, gives a result of which the first read is a prefix.
C20_RereadExtends ==
  [][\A r \in RunIds : \A n \in 1..(Len(log[r]) + 1) :
       IsPrefix(ReadFrom(r, n), SubSeq(log'[r], n, Len(log'[r])))]_vars

C20_Witness ==
  \E r \in RunIds, s, t \in LogSubs :
    /\ sub[s].mode = "relay"
    /\ sub[s].run = r
    /\ sub[t].run = r
    /\ 1 < sub[s].cursor
    /\ sub[s].cursor < sub[t].cursor
    /\ Len(ReadFrom(r, sub[s].cursor)) > 2
    /\ IsPrefix(SubSeq(page[t].events, sub[s].cursor, Len(page[t].events)),
                ReadFrom(r, sub[s].cursor))
    /\ runStatus[r] = "completed"

C22_SubscriberNeverAffectsRun ==
  [][/\ (sub' # sub \/ page' # page) => UNCHANGED backendVars
     /\ \A r \in RunIds :
          /\ runStatus[r] = "pending" => ENABLED BeginExecution(r)
          /\ runStatus[r] = "running" => ENABLED PipelineStep(r)]_vars

C22_Witness ==
  \E s \in Subs :
    /\ sub[s].closedBy = "client"
    /\ sub[s].relayed = 3
    /\ Len(page[s].events) = 3
    /\ runStatus[sub[s].run] = "completed"
    /\ packet[sub[s].run].decision = "HOLD_PENDING_APPROVAL"
    /\ log[sub[s].run][Len(log[sub[s].run])].type = "final"

\* an agent call of the run was made in this step
Called(r) == attempts'[r] = attempts[r] + 1

\* C23: a step never has more than MAX_RETRIES call attempts; a call that fails
\* on a transient error below the limit is retried, and the one that reaches
\* the limit fails the step, whose result is substituted.
C23_AttemptsBounded ==
  [][\A r \in RunIds :
       /\ attempts[r] <= MAX_RETRIES
       /\ attempts'[r] <= MAX_RETRIES
       /\ (Called(r) /\ stepRecords'[r][CurStep(r)].error \in TransientFailures) =>
            IF attempts'[r] < MAX_RETRIES
            THEN /\ stepRecords'[r][CurStep(r)].status = "running"
                 /\ results'[r] = results[r]
                 /\ cur'[r] = cur[r]
            ELSE /\ stepRecords'[r][CurStep(r)].status = "failed"
                 /\ results'[r][CurStep(r)] = "FAILED"
                 /\ log'[r][Len(log'[r])].type = "step_failed"
                 /\ cur'[r].idx = cur[r].idx + 1]_vars

C23_Witness ==
  \E r \in RunIds, st \in AgentSteps :
    /\ stepRecords[r][st] = [status |-> "failed", error |-> "timeout"]
    /\ cur[r] = [idx |-> StepIndex(st) + 1, phase |-> "enter"]
    /\ attempts[r] = MAX_RETRIES
    /\ results[r][st] = "FAILED"

\* C24: a call is retried only after a transient failure; a definitive
\* rejection or a malformed response fails the step on the spot, whatever the
\* number of attempts, and its result is substituted.
C24_OnlyTransientRetried ==
  [][\A r \in RunIds :
       Called(r) =>
         /\ stepRecords'[r][CurStep(r)].status = "running" =>
              stepRecords'[r][CurStep(r)].error \in TransientFailures
         /\ stepRecords'[r][CurStep(r)].error \in DefinitiveFailures =>
              /\ stepRecords'[r][CurStep(r)].status = "failed"
              /\ results'[r][CurStep(r)] = "FAILED"
              /\ log'[r][Len(log'[r])].type = "step_failed"
              /\ log'[r][Len(log'[r])].payload.error \in DefinitiveFailures
              /\ cur'[r].idx = cur[r].idx + 1]_vars

C24_Witness ==
  \E r \in RunIds :
    /\ stepRecords[r]["sanctions"] = [status |-> "failed", error |-> "rejected"]
    /\ stepRecords[r]["liquidity"] = [status |-> "failed", error |-> "malformed"]
    /\ cur[r] = [idx |-> StepIndex("liquidity") + 1, phase |-> "enter"]
    /\ attempts[r] = 1

\* C25: a timed-out call leaves the run in progress: the step is retried or
\* its result substituted, the run's task always has a next step, and the run
\* completes with a decision.
C25_TimeoutCancelsOnlyCall ==
  \A r \in RunIds : \A st \in AgentSteps :
    (stepRecords[r][st].error = "timeout" /\ ~internalErr[r]) =>
      /\ runStatus[r] \in {"running", "completed"}
      /\ stepRecords[r][st].status = "running" =>
           /\ runStatus[r] = "running"
           /\ cur[r] = [idx |-> StepIndex(st), phase |-> "work"]
      /\ stepRecords[r][st].status = "failed" =>
           /\ results[r][st] = "FAILED"
           /\ cur[r].idx > StepIndex(st)
      /\ runStatus[r] = "running" => ENABLED PipelineStep(r)
      /\ runStatus[r] = "completed" => packet[r].decision # Undefined

C25_Witness ==
  \E r \in RunIds :
    /\ stepRecords[r]["liquidity"] = [status |-> "failed", error |-> "timeout"]
    /\ stepRecords[r]["procedures"].status = "completed"
    /\ runStatus[r] = "completed"
    /\ packet[r].decision # Undefined

\* the final events of a run's log
Finals(r) == {i \in DOMAIN log[r] : log[r][i].type = "final"}

\* C26: an internal orchestrator failure ends the run: status failed, an error
\* event as the last event, no further step, and nothing substituted for it:
\* no step result replaced, no final event, no DecisionPacket.
C26_InternalFailureFatal ==
  \A r \in RunIds :
    internalErr[r] =>
      /\ runStatus[r] = "failed"
      /\ log[r] # <<>>
      /\ log[r][Len(log[r])].type = "error"
      /\ ~ENABLED PipelineStep(r)
      /\ \A st \in AgentSteps :
           results[r][st] = "FAILED" => stepRecords[r][st].status = "failed"
      /\ Finals(r) = {}
      /\ packet[r] = NoPacket

C26_Witness ==
  \E r \in RunIds :
    /\ internalErr[r]
    /\ runStatus[r] = "failed"
    /\ stepRecords[r]["sanctions"].status = "completed"
    /\ stepRecords[r]["liquidity"] = [status |-> "running", error |-> "timeout"]
    /\ results[r]["liquidity"] = "none"

RejectDecisions ==
  {"REJECT_SANCTIONS", "REJECT_LIQUIDITY", "REJECT_POLICY", "REJECT_FRAUD_RISK",
   "REJECT_INVALID_BENEFICIARY", "REJECT_LIMIT_EXCEEDED"}

\* the packets the bench has produced
Outs == {dec.out[i] : i \in DOMAIN dec.out}

\* C13: whenever the sanctions result is BLOCK or a confirmed match the decision
\* is REJECT_SANCTIONS with the approver Compliance Officer, whatever the
\* liquidity and procedures results are: for decide, for the BLOCK rows of the
\* README matrices and for the generated packets.
C13_BlockRejects ==
  /\ dec.phase = "engine" =>
       /\ dec.s \in {"BLOCK", "CONFIRMED_MATCH"} =>
            \A o \in Outs : /\ o.decision = "REJECT_SANCTIONS"
                            /\ o.approvers = <<"Compliance Officer">>
       /\ (dec.s = "BLOCK" /\ dec.matrix # NoRow) =>
            /\ dec.backend = MatrixRow("REJECT", <<"Compliance Officer">>)
            /\ dec.matrix = MatrixRow("REJECT + Open Case", <<"Compliance Officer">>)
  /\ dec.phase = "demo" =>
       (DemoSanctionsStatus(dec.scenario) \in {"BLOCK", "CONFIRMED_MATCH"} =>
          \A o \in Outs : /\ o.decision = "REJECT_SANCTIONS"
                          /\ o.approvers = <<"Compliance Officer">>)

C13_Witness ==
  /\ dec.phase = "engine"
  /\ dec.s = "BLOCK"
  /\ dec.l = "BREACH"
  /\ dec.matrix # NoRow
  /\ Len(dec.out) = 1

\* C14: whenever the sanctions result is ESCALATE or REVIEW_REQUIRED the
\* decision is ESCALATE_COMPLIANCE with the approvers Compliance Manager and
\* MLRO, whatever the liquidity result is: for decide and for the generated
\* packets.
C14_EscalateToCompliance ==
  /\ (dec.phase = "engine" /\ dec.s \in {"ESCALATE", "REVIEW_REQUIRED"}) =>
       \A o \in Outs : /\ o.decision = "ESCALATE_COMPLIANCE"
                       /\ o.approvers = <<"Compliance Manager", "MLRO">>
  /\ (dec.phase = "demo"
        /\ DemoSanctionsStatus(dec.scenario) \in {"ESCALATE", "REVIEW_REQUIRED"}) =>
       \A o \in Outs : /\ o.decision = "ESCALATE_COMPLIANCE"
                       /\ o.approvers = <<"Compliance Manager", "MLRO">>

C16_CleanReleases ==
  /\ (dec.phase = "engine" /\ dec.s = "CLEAR" /\ dec.l = "SUFFICIENT") =>
       /\ dec.p = "NONE" =>
            \A o \in Outs : /\ o.decision = "RELEASE"
                            /\ o.approvers = <<"Payments Operator">>
       /\ dec.matrix # NoRow =>
            dec.backend = MatrixRow("RELEASE", <<"Payments Operator">>)
  /\ (dec.phase = "demo" /\ DemoSanctionsStatus(dec.scenario) = "CLEAR"
        /\ DemoLiquidityStatus(dec.scenario) = "SUFFICIENT"
        /\ DemoProceduresTier(dec.scenario) = "standard") =>
       \A o \in Outs : /\ o.decision = "RELEASE"
                       /\ o.approvers = <<"Payments Operator">>

\* C17: a REJECT of the primary rule is final: when decide rejects, it returns
\* the same decision for every procedures result, and the BLOCK row of the
\* README matrix gives the same action before and after the cutoff.
C17_RejectNeverOverridden ==
  dec.phase = "engine" =>
    /\ \A o \in Outs :
         o.decision \in RejectDecisions =>
           \A p \in DecProcedures : Decide(dec.s, dec.l, p).decision = o.decision
    /\ (dec.s = "BLOCK" /\ dec.matrix # NoRow) =>
         /\ dec.matrix.action = "REJECT + Open Case"
         /\ MatrixAction(dec.s, dec.l = "BREACH", ~dec.beforeCutoff) = dec.matrix

C17_Witness ==
  /\ dec.phase = "engine"
  /\ dec.s = "BLOCK"
  /\ dec.p = "CONDITIONS"
  /\ ~dec.beforeCutoff
  /\ dec.matrix # NoRow
  /\ Len(dec.out) = 1
  /\ dec.out[1].decision = "REJECT_SANCTIONS"

\* C18: two calls with the same inputs yield identical DecisionPackets: for
\* decide and for generateDecisionPacket.
C18_SameInputsSamePacket ==
  \A o1, o2 \in (IF dec.phase = "idle" THEN {} ELSE Outs) : o1 = o2

StatusRank(status) ==
  CASE status = "idle" -> 0
    [] status = "running" -> 1
    [] status \in {"completed", "failed"} -> 2

\* C10: the status of the run only moves forward, idle/pending to running to
\* completed or failed; completed and failed are never left.
C10_StatusOnlyForward ==
  [][/\ StatusRank(store'.status) >= StatusRank(store.status)
     /\ store.status \in {"completed", "failed"} => store'.status = store.status]_vars

-----------------------------------------------------------------------------
(* Step events of a stream *)

\* the events of q after the step_started at i and before position j that end
\* the step started at i
StepEnds(q, i, j) ==
  {k \in (i + 1)..(j - 1) :
     q[k].step = q[i].step /\ q[k].type \in {"step_completed", "step_failed"}}

\* every step_started of q is followed by exactly one step_completed or
\* step_failed of its step before the next step_started or the final event
StartedThenEnded(q) ==
  \A i \in DOMAIN q : q[i].type = "step_started" =>
    \A j \in DOMAIN q :
      (/\ j > i
       /\ q[j].type \in {"step_started", "final"}
       /\ \A k \in (i + 1)..(j - 1) : q[k].type \notin {"step_started", "final"})
      => Cardinality(StepEnds(q, i, j)) = 1

\* C31: every step, summarize included, has a step_started event when it is
\* entered (its StepRecord has left pending) and exactly one step_completed or
\* step_failed event before the next step's step_started, or before the final
\* event for the last step; in the orchestrator's log and in the events the
\* stream route generates.
C31_StartedThenEndedOnce ==
  /\ \A r \in RunIds : StartedThenEnded(log[r])
  /\ \A r \in RunIds : \A st \in StepSet :
       stepRecords[r][st].status # "pending" =>
         \E i \in DOMAIN log[r] : log[r][i].type = "step_started" /\ log[r][i].step = st
  /\ \A s \in Subs : StartedThenEnded(DemoEmitted(s))

\* C32: every event delivered to a subscriber carries all eight fields of the
\* wire shape: run_id, seq, type, step, agent, ts, elapsed_ms, payload.
C32_WireShapeComplete ==
  \A s \in Subs : \A i \in DOMAIN page[s].events : page[s].events[i].keys = AllKeys

\* C36: the output of one stream request is either relayed backend events only
\* or generated demo events only: no demo event is enqueued on a stream that
\* has relayed a backend event.
C36_RelayOrDemoOnly ==
  \A s \in Subs : ~(sub[s].relayed > 0 /\ DemoEmitted(s) # <<>>)

\* pending, then running, then completed or failed
StepRank(status) ==
  CASE status = "pending" -> 0
    [] status = "running" -> 1
    [] status \in {"completed", "failed"} -> 2

\* C37: on the run page the displayed status of each step only moves forward,
\* pending to running to completed or failed, whatever events the stream
\* delivers.
C37_StepStatusForward ==
  [][\A s \in Subs : \A st \in StepSet :
       StepRank(page'[s].steps[st]) >= StepRank(page[s].steps[st])]_vars

\* C34: the decision table is total: for every combination of sanctions and
\* liquidity status the result types admit, POTENTIAL_MATCH, CONFIRMED_MATCH,
\* MARGINAL and REQUIRES_FUNDING included, a primary rule fires and decide
\* produces a decision.
C34_TableTotal ==
  dec.phase = "engine" =>
    \A i \in DOMAIN dec.out :
      /\ dec.out[i].decision # "NO_RULE"
      /\ dec.out[i].rationale[3] # <<"rule", "none">>

\* C35: the failure of a later step never weakens a sanctions BLOCK: a run
\* whose sanctions result is BLOCK and whose liquidity or procedures step
\* failed still ends with the decision REJECT_SANCTIONS, in its DecisionPacket
\* and in its final event.
C35_BlockSurvivesLaterFailure ==
  \A r \in RunIds :
    (/\ runStatus[r] = "completed"
     /\ results[r]["sanctions"] = "BLOCK"
     /\ "FAILED" \in {results[r]["liquidity"], results[r]["procedures"]}) =>
      /\ packet[r].decision = "REJECT_SANCTIONS"
      /\ log[r][Len(log[r])].type = "final"
      /\ log[r][Len(log[r])].payload.decision = "REJECT_SANCTIONS"

C35_Witness ==
  \E r \in RunIds :
    /\ runStatus[r] = "completed"
    /\ results[r]["sanctions"] = "BLOCK"
    /\ stepRecords[r]["liquidity"].status = "failed"
    /\ results[r]["procedures"] = "FAILED"
    /\ packet[r].decision = "REJECT_SANCTIONS"

\* C33: the stream is restartable: when the connection of a run page fails
\* before the final event was delivered, the page subscribes again and
\* eventually observes the run's final event.
C33_DropThenFinal ==
  \A s \in Subs :
    (sub[s].closedBy = "error" /\ ~page[s].isComplete) ~> page[s].isComplete

\* C38: runs are isolated: every event in a run's log is an event of that run
\* and carries its position in that log as sequence number, whatever was
\* appended to other runs meanwhile; a subscriber of a run is delivered events
\* of that run only, in the run's own numbering.
C38_RunsIsolated ==
  /\ \A r \in DOMAIN log : \A i \in DOMAIN log[r] :
       log[r][i].run_id = r /\ log[r][i].seq = i
  /\ \A s \in Subs : \A i \in DOMAIN page[s].events :
       /\ page[s].events[i].run_id = sub[s].run
       /\ page[s].events[i] = log[sub[s].run][i]

\* both runs have appended events while the other was still running, and the
\* subscriber of one of them has been delivered events
C38_Witness ==
  /\ runStatus["r1"] = "running" /\ runStatus["r2"] = "running"
  /\ Len(log["r1"]) >= 2 /\ Len(log["r2"]) >= 2
  /\ \E s \in Subs : sub[s].run = "r2" /\ sub[s].relayed >= 2

\* the agents of a list of the plan
PlanIds(q) == {q[i].id : i \in DOMAIN q}

RegistryAgents == {AGENT_REGISTRY[i] : i \in DOMAIN AGENT_REGISTRY}

\* C40: compilePlan partitions the registry: every core agent is selected,
\* every conditional agent is in exactly one of selected and excluded, no
\* runtime agent is in either, no agent is listed twice, and executionOrder is
\* exactly the selected agents in ascending order of their order field.
C40_PlanPartitionsRegistry ==
  (dec.phase = "plan" /\ dec.plan # NoPlan) =>
    LET sel == PlanIds(dec.plan.selected)
        exc == PlanIds(dec.plan.excluded)
        ord == dec.plan.executionOrder
    IN /\ \A a \in RegistryAgents :
            /\ a.category = "core" => a.id \in sel /\ a.id \notin exc
            /\ a.category = "conditional" => (a.id \in sel) # (a.id \in exc)
            /\ a.category = "runtime" => a.id \notin sel \cup exc
       /\ Cardinality(sel) = Len(dec.plan.selected)
       /\ Cardinality(exc) = Len(dec.plan.excluded)
       /\ PlanIds(ord) = sel
       /\ Len(ord) = Len(dec.plan.selected)
       /\ \A i \in 1..(Len(ord) - 1) : ord[i].order < ord[i + 1].order

\* a plan with conditional agents on both sides and the challenger optimizer,
\* registered after the agents it runs before, selected
C40_Witness ==
  /\ dec.phase = "plan" /\ dec.plan # NoPlan
  /\ "challenger_optimizer_agent" \in PlanIds(dec.plan.selected)
  /\ "rebalance_planner_agent" \in PlanIds(dec.plan.selected)
  /\ "red_team_agent" \in PlanIds(dec.plan.excluded)
  /\ dec.plan.executionOrder # dec.plan.selected

\* C39: in the chat panel a blocked PII status, set by the local check or by
\* the backend's answer, stays blocked until the user edits the input or
\* restores the blocked message; no timeout left from an earlier passed check
\* resets it.
C39_BlockedUntilUserActs ==
  [][(panel.piiStatus = "blocked" /\ panel'.piiStatus # "blocked") =>
       (HandleRestoreMessage \/ \E v \in PanelInputs : EditInput(v))]_vars

====
